---- MODULE Spec2Model ----
(***************************************************************************)
(* WikiScout: the summarization engine of src/modules/summarize.py         *)
(* (section scoring, key-sentence extraction, bullet assembly, keyword     *)
(* extraction, topic comparison).                                          *)
(*                                                                         *)
(* Texts are TLA+ strings handled character by character (Len, SubSeq and  *)
(* \o on strings), so that Python's str methods and the regular            *)
(* expressions of the source are computed, not assumed.  Real-valued       *)
(* scores are kept exact: a section score is a fraction [num, den], a      *)
(* sentence score is doubled, a keyword weight is doubled.                 *)
(***************************************************************************)
EXTENDS Integers, Sequences, FiniteSets, TLC

VARIABLES call, pc, ret, ret2, hashseed, cache, now, tasks

vars == <<call, pc, ret, ret2, hashseed, cache, now, tasks>>

\* The value of a result that has not been produced.
None == [none |-> TRUE]

Min(a, b) == IF a <= b THEN a ELSE b

Max(a, b) == IF a >= b THEN a ELSE b

Range(f) == {f[i] : i \in DOMAIN f}

(***************************************************************************)
(* Python str primitives.                                                  *)
(***************************************************************************)

\* s[i-1] of Python: the one-character string at 1-based position i.
At(s, i) == SubSeq(s, i, i)

\* s[:n] for n >= 0.
Prefix(s, n) == SubSeq(s, 1, Min(n, Len(s)))

\* str.isspace of one character (the ASCII whitespace the inputs use).
Whitespace == {" ", "\n", "\t"}

Digits == {"0", "1", "2", "3", "4", "5", "6", "7", "8", "9"}

LowerLetters ==
    {"a", "b", "c", "d", "e", "f", "g", "h", "i", "j", "k", "l", "m",
     "n", "o", "p", "q", "r", "s", "t", "u", "v", "w", "x", "y", "z"}

CasePairs ==
    {<<"A", "a">>, <<"B", "b">>, <<"C", "c">>, <<"D", "d">>, <<"E", "e">>,
     <<"F", "f">>, <<"G", "g">>, <<"H", "h">>, <<"I", "i">>, <<"J", "j">>,
     <<"K", "k">>, <<"L", "l">>, <<"M", "m">>, <<"N", "n">>, <<"O", "o">>,
     <<"P", "p">>, <<"Q", "q">>, <<"R", "r">>, <<"S", "s">>, <<"T", "t">>,
     <<"U", "u">>, <<"V", "v">>, <<"W", "w">>, <<"X", "x">>, <<"Y", "y">>,
     <<"Z", "z">>}

UpperLetters == {p[1] : p \in CasePairs}

ToLower == [c \in UpperLetters |-> (CHOOSE p \in CasePairs : p[1] = c)[2]]

LowerChar(c) == IF c \in UpperLetters THEN ToLower[c] ELSE c

\* The characters of the regular expressions' \w class.
WordChars == LowerLetters \cup UpperLetters \cup Digits \cup {"_"}

\* The concatenation f[a] \o ... \o f[b] of a function of strings, by halves
\* (the recursion is as deep as log2 of the length, not as the length).
RECURSIVE ConcatRange(_, _, _)
ConcatRange(f, a, b) ==
    IF a > b THEN ""
    ELSE IF a = b THEN f[a]
    ELSE LET m == (a + b) \div 2
         IN  ConcatRange(f, a, m) \o ConcatRange(f, m + 1, b)

\* The maximal runs of positions a..b where mask holds, as <<first, last>>
\* pairs in order, by halves: a run that crosses the middle is rejoined.
RECURSIVE RunsRange(_, _, _)
RunsRange(mask, a, b) ==
    IF a > b THEN <<>>
    ELSE IF a = b THEN (IF mask[a] THEN <<<<a, a>>>> ELSE <<>>)
    ELSE LET m == (a + b) \div 2
             l == RunsRange(mask, a, m)
             r == RunsRange(mask, m + 1, b)
         IN  IF l # <<>> /\ r # <<>> /\ l[Len(l)][2] = m /\ r[1][1] = m + 1
             THEN SubSeq(l, 1, Len(l) - 1)
                  \o <<<<l[Len(l)][1], r[1][2]>>>>
                  \o SubSeq(r, 2, Len(r))
             ELSE l \o r

\* The substrings of s over the maximal runs of positions where mask holds.
Runs(s, mask) ==
    LET rs == RunsRange(mask, 1, Len(s))
    IN  [k \in 1..Len(rs) |-> SubSeq(s, rs[k][1], rs[k][2])]

\* str.lower
lower(s) == ConcatRange([i \in 1..Len(s) |-> LowerChar(At(s, i))], 1, Len(s))

\* str.startswith
startswith(s, p) == Len(p) <= Len(s) /\ SubSeq(s, 1, Len(p)) = p

\* str.endswith
endswith(s, p) ==
    Len(p) <= Len(s) /\ SubSeq(s, Len(s) - Len(p) + 1, Len(s)) = p

\* Python's `sub in s` (the empty string is in every string).
Contains(s, sub) ==
    \/ sub = ""
    \/ \E i \in 1..(Len(s) - Len(sub) + 1) :
          SubSeq(s, i, i + Len(sub) - 1) = sub

\* str.strip
strip(s) ==
    IF \A i \in 1..Len(s) : At(s, i) \in Whitespace THEN ""
    ELSE LET first == CHOOSE i \in 1..Len(s) :
                          /\ At(s, i) \notin Whitespace
                          /\ \A j \in 1..(i - 1) : At(s, j) \in Whitespace
             last == CHOOSE i \in 1..Len(s) :
                          /\ At(s, i) \notin Whitespace
                          /\ \A j \in (i + 1)..Len(s) : At(s, j) \in Whitespace
         IN  SubSeq(s, first, last)

\* str.split() with no argument: the maximal runs of non-whitespace.
split(s) == Runs(s, [i \in 1..Len(s) |-> At(s, i) \notin Whitespace])

\* str.replace(old, new), for an old of one character or of two different
\* characters (two matches of such an old never overlap).
replace(s, old, new) ==
    LET MatchAt(i) == i >= 1 /\ SubSeq(s, i, Min(Len(s), i + Len(old) - 1)) = old
    IN  ConcatRange([i \in 1..Len(s) |->
                        IF MatchAt(i) THEN new
                        ELSE IF \E k \in 1..(Len(old) - 1) : MatchAt(i - k) THEN ""
                        ELSE At(s, i)],
                    1, Len(s))

\* The first position >= i of character c in s, 0 when there is none.
IndexOfFrom(s, c, i) ==
    IF \E j \in i..Len(s) : At(s, j) = c
    THEN CHOOSE j \in i..Len(s) :
             At(s, j) = c /\ \A k \in i..(j - 1) : At(s, k) # c
    ELSE 0

\* The last position <= j of character c in s, 0 when there is none.
LastIndexOf(s, c, j) ==
    IF \E i \in 1..j : At(s, i) = c
    THEN CHOOSE i \in 1..j :
             At(s, i) = c /\ \A k \in (i + 1)..j : At(s, k) # c
    ELSE 0

\* s.rsplit(' ', 1)[0]: s up to its last space, or s when it has none.
RSplitHead(s) ==
    LET j == LastIndexOf(s, " ", Len(s))
    IN  IF j = 0 THEN s ELSE SubSeq(s, 1, j - 1)

\* re.sub(r'\s+', ' ', s): every run of whitespace becomes one space.
CollapseWhitespace(s) ==
    ConcatRange([i \in 1..Len(s) |->
                    IF At(s, i) \notin Whitespace THEN At(s, i)
                    ELSE IF i > 1 /\ At(s, i - 1) \in Whitespace THEN ""
                    ELSE " "],
                1, Len(s))

\* re.sub(r'\[.*?\]', '', s) on a text without newlines (the whitespace is
\* collapsed before): scanning from the left, a '[' that a ']' follows opens
\* a span that the first ']' after it closes.  Position p lies in such a span
\* exactly when a ']' stands at or after p and a '[' stands at or before p
\* with no ']' between that '[' and p.
RemoveBrackets(s) ==
    LET opens == {i \in 1..Len(s) : At(s, i) = "["}
        closes == {i \in 1..Len(s) : At(s, i) = "]"}
        Removed(p) ==
            /\ \E j \in closes : j >= p
            /\ \E i \in opens : i <= p /\ ~ \E k \in closes : i < k /\ k < p
    IN  IF opens = {} \/ closes = {} THEN s
        ELSE ConcatRange([p \in 1..Len(s) |-> IF Removed(p) THEN "" ELSE At(s, p)],
                         1, Len(s))

\* The maximal runs of \w characters of s: r'\b(w1|w2)\b' finds a match in s
\* exactly when one of the words is such a run.
WordRuns(s) == Range(Runs(s, [i \in 1..Len(s) |-> At(s, i) \in WordChars]))

\* re.search(r'\d', s): s holds a digit.
HasDigit(s) == \E i \in 1..Len(s) : At(s, i) \in Digits

\* re.search(r'\b(19|20)\d{2}\b', s)
HasYear(s) ==
    \E w \in WordRuns(s) :
        /\ Len(w) = 4
        /\ SubSeq(w, 1, 2) \in {"19", "20"}
        /\ At(w, 3) \in Digits
        /\ At(w, 4) \in Digits

(***************************************************************************)
(* Tokenizer / normalizer.                                                 *)
(***************************************************************************)

\* sep.join(parts)
Join(parts, sep) ==
    ConcatRange([i \in 1..Len(parts) |->
                    IF i < Len(parts) THEN parts[i] \o sep ELSE parts[i]],
                1, Len(parts))

RECURSIVE StripNonEmpty(_, _)
StripNonEmpty(parts, i) ==
    IF i > Len(parts) THEN <<>>
    ELSE IF strip(parts[i]) = "" THEN StripNonEmpty(parts, i + 1)
    ELSE <<strip(parts[i])>> \o StripNonEmpty(parts, i + 1)

\* BeautifulSoup(text, 'html.parser').get_text(separator=' ', strip=True): the
\* text nodes between the tags, each stripped, the empty ones dropped, joined
\* by one space.  A tag opens at a '<' that a letter or '/' follows and runs
\* to the next '>' (character entities, comments and script bodies are not
\* modelled: the inputs hold none).  Position p lies in a tag exactly when a
\* '<' that opens a tag stands at or before p with no '>' between it and p.
GetText(text) ==
    LET opens == {i \in 1..(Len(text) - 1) :
                     /\ At(text, i) = "<"
                     /\ At(text, i + 1) \in LowerLetters \cup UpperLetters \cup {"/"}
                     /\ \E j \in (i + 1)..Len(text) : At(text, j) = ">"}
        closes == {i \in 1..Len(text) : At(text, i) = ">"}
        InTag(p) == \E i \in opens : i <= p /\ ~ \E k \in closes : i < k /\ k < p
    IN  IF opens = {} THEN strip(text)
        ELSE Join(StripNonEmpty(Runs(text, [p \in 1..Len(text) |-> ~InTag(p)]), 1), " ")

_clean_html_text(text) ==
    IF text = "" THEN ""
    ELSE RemoveBrackets(strip(CollapseWhitespace(GetText(text))))

SentenceEnd == {".", "!", "?"}

\* re.split(r'(?<=[.!?])\s+', s) without its empty pieces: the text is cut at
\* every run of whitespace that directly follows '.', '!' or '?'.
ReSplitSentences(s) ==
    LET InBreak(i) ==
            /\ At(s, i) \in Whitespace
            /\ \E a \in 2..i :
                  /\ At(s, a - 1) \in SentenceEnd
                  /\ \A k \in a..i : At(s, k) \in Whitespace
    IN  Runs(s, [i \in 1..Len(s) |-> ~InBreak(i)])

\* [s.strip() for s in sentences if s.strip()]
_split_sentences(text) ==
    LET t == replace(replace(text, "\\n", " "), "\n", " ")
    IN  StripNonEmpty(ReSplitSentences(t), 1)

(***************************************************************************)
(* dict.get, and the stable descending sort of list.sort(reverse=True).    *)
(***************************************************************************)

\* d.get(key, default)
Get(d, key, default) == IF key \in DOMAIN d THEN d[key] ELSE default

\* Exact comparison of two fractions with positive denominators.
FracGE(a, b) == a.num * b.den >= b.num * a.den

FracOfInt(n) == [num |-> n, den |-> 1]

RECURSIVE InsertDesc(_, _, _)
InsertDesc(sorted, x, k) ==
    IF k > Len(sorted) THEN Append(sorted, x)
    ELSE IF FracGE(sorted[k].score, x.score) THEN InsertDesc(sorted, x, k + 1)
    ELSE SubSeq(sorted, 1, k - 1) \o <<x>> \o SubSeq(sorted, k, Len(sorted))

RECURSIVE ReverseFrom(_, _)
ReverseFrom(items, i) ==
    IF i = 0 THEN <<>> ELSE <<items[i]>> \o ReverseFrom(items, i - 1)

RECURSIVE SortDescFrom(_, _, _)
SortDescFrom(items, i, sorted) ==
    IF i > Len(items) THEN sorted
    ELSE SortDescFrom(items, i + 1, InsertDesc(sorted, items[i], 1))

\* A slip: a descending sort that puts items of equal score in the reverse
\* of their order (what reversing an ascending sort gives).
SortDescTiesReversed(items) == SortDescFrom(ReverseFrom(items, Len(items)), 1, <<>>)

\* items.sort(key=score, reverse=True): descending by .score, items of equal
\* score keeping their order (Python's sort is stable, also when reversed).
SortDesc(items) == SortDescFrom(items, 1, <<>>)

(***************************************************************************)
(* Section scorer.                                                         *)
(***************************************************************************)

skip_headings ==
    {"references", "see also", "notes", "external links", "gallery", "infobox"}

\* keyword -> weight, each counted once when it is a substring of the text.
content_keywords ==
    {<<"developed", 2>>, <<"created", 2>>, <<"discovered", 2>>, <<"founded", 2>>,
     <<"invented", 3>>, <<"pioneered", 3>>, <<"revolutionized", 3>>,
     <<"major", 1>>, <<"important", 1>>, <<"significant", 2>>, <<"critical", 2>>,
     <<"however", 1>>, <<"unlike", 2>>, <<"difference", 2>>, <<"distinction", 2>>}

RECURSIVE SumWeights(_)
SumWeights(pairs) ==
    IF pairs = {} THEN 0
    ELSE LET p == CHOOSE q \in pairs : TRUE
         IN  p[2] + SumWeights(pairs \ {p})

\* sum(count for keyword, count in content_keywords.items()
\*     if keyword in text.lower())
ContentScore(text_lower) ==
    SumWeights({p \in content_keywords : Contains(text_lower, p[1])})

\* The score as an exact fraction: with n = max(len(words), 1) the float
\*   min(15, word_count / 15) + len(set(words)) / n * 12 + (integer bonuses)
\* is num / (15 * n).  The hard exclusion returns the integer -100.
QualityScore(section) ==
    LET text == Get(section, "text", "")
        heading == Get(section, "heading", "")
        word_count == Len(split(text))
        words == split(lower(text))
        n == Max(Len(words), 1)
        number_score == IF HasDigit(text) THEN 5 ELSE 0
        year_score == IF HasYear(text) THEN 4 ELSE 0
        content_score == ContentScore(lower(text))
        intro_boost ==
            IF lower(heading) \in {"introduction", "overview", "background", "history"}
            THEN 3 ELSE 0
        career_boost ==
            IF lower(heading) \in {"early life", "career", "works", "achievements", "legacy"}
            THEN 2 ELSE 0
    IN  [num |-> Min(225 * n, word_count * n)
                 + 180 * Cardinality(Range(words))
                 + 15 * n * (number_score + year_score + content_score
                             + intro_boost + career_boost),
         den |-> 15 * n]

\* A slip: the four headings of the fallback loop used for the hard exclusion.
_score_section_four_headings(section) ==
    IF lower(Get(section, "heading", ""))
          \in {"references", "see also", "notes", "external links"}
    THEN FracOfInt(-100)
    ELSE QualityScore(section)

_score_section(section) ==
    IF lower(Get(section, "heading", "")) \in skip_headings
    THEN FracOfInt(-100)
    ELSE QualityScore(section)

(***************************************************************************)
(* Key-sentence extractor.                                                 *)
(***************************************************************************)

\* len(best_sent) > 150 and best_sent[:150]
MaxSentenceLen == 150

Ellipsis == "..."

generic_starters ==
    {"key point", "main idea", "important", "also", "further",
     "however", "therefore", "moreover", "likewise", "additionally"}

generic_phrases == {"key point", "relates to", "involves", "mentioned in"}

verb_words ==
    {"is", "are", "was", "were", "be", "have", "has", "do", "does", "created",
     "developed", "discovered", "established", "founded"}

comparison_words ==
    {"first", "largest", "smallest", "most", "least", "unlike", "similar", "between"}

\* any(text_lower.startswith(p) for p in prefixes)
StartsWithAny(text_lower, prefixes) ==
    \E p \in prefixes : startswith(text_lower, p)

\* The sentence score doubled (so that unique_words * 0.5 stays an integer).
SentenceScore2(sent, context) ==
    LET sent_lower == lower(sent)
        words == split(sent)
        runs == WordRuns(sent_lower)
    IN  Cardinality(Range(words))
        + (IF HasDigit(sent) THEN 6 ELSE 0)
        + (IF runs \cap verb_words # {} THEN 4 ELSE 0)
        + (IF runs \cap comparison_words # {} THEN 4 ELSE 0)
        + (IF Contains(sent_lower, lower(context)) THEN 10 ELSE 0)
        - (IF \E ph \in generic_phrases : Contains(sent_lower, ph) THEN 20 ELSE 0)

\* A slip: the filter without its generic-starter test.
IsCandidateAnyStarter(sent) ==
    /\ Len(split(sent)) >= 5
    /\ Len(split(sent)) <= 30

\* The filter of the scoring loop: 5 <= len(words) <= 30 and no generic starter.
IsCandidate(sent) ==
    /\ Len(split(sent)) >= 5
    /\ Len(split(sent)) <= 30
    /\ ~StartsWithAny(lower(sent), generic_starters)

RECURSIVE ScoredFrom(_, _, _)
ScoredFrom(sentences, i, context) ==
    IF i > Len(sentences) THEN <<>>
    ELSE IF IsCandidate(sentences[i])
         THEN <<[score |-> FracOfInt(SentenceScore2(sentences[i], context)),
                 sent |-> sentences[i]]>> \o ScoredFrom(sentences, i + 1, context)
         ELSE ScoredFrom(sentences, i + 1, context)

\* sent[:150].rsplit(' ', 1)[0] + "..." when len(sent) > 150.
TruncateSentence(sent) ==
    IF Len(sent) > MaxSentenceLen
    THEN RSplitHead(Prefix(sent, MaxSentenceLen)) \o Ellipsis
    ELSE sent

RECURSIVE FirstSubstantial(_, _)
FirstSubstantial(sentences, i) ==
    IF i > Len(sentences) THEN 0
    ELSE IF Len(sentences[i]) > 20 /\ Len(split(sentences[i])) >= 5 THEN i
    ELSE FirstSubstantial(sentences, i + 1)

\* The choice among the sentences once they are scored and sorted.
BestSentence(sentences, scored) ==
    IF sentences = <<>> THEN ""
    ELSE IF scored # <<>> THEN TruncateSentence(scored[1].sent)
    ELSE LET k == FirstSubstantial(sentences, 1)
         IN  IF k # 0 THEN TruncateSentence(sentences[k])
             ELSE Prefix(sentences[1], MaxSentenceLen)

_extract_key_sentence(text, context) ==
    LET sentences == _split_sentences(_clean_html_text(text))
    IN  BestSentence(sentences, SortDesc(ScoredFrom(sentences, 1, context)))

generic_patterns ==
    {"key point", "relates to", "involves", "mentioned in", "also known as",
     "more information", "further details"}

\* any(re.match('^' + p, text.lower()) for p in generic_patterns)
_is_generic_bullet(text) ==
    StartsWithAny(lower(text), generic_patterns)

(***************************************************************************)
(* Bullet assembler.                                                       *)
(***************************************************************************)

\* section.get('text', '')[:100] of a medium bullet
SnippetLen == 100

fallback_skip_headings == {"references", "see also", "notes", "external links"}

\* A slip: the scoring loop without its `if text:`.
RECURSIVE ScoredSectionsKeepEmpty(_, _)
ScoredSectionsKeepEmpty(sections, i) ==
    IF i > Len(sections) THEN <<>>
    ELSE <<[score |-> _score_section(sections[i]), section |-> sections[i]]>>
         \o ScoredSectionsKeepEmpty(sections, i + 1)

RECURSIVE ScoredSections(_, _)
ScoredSections(sections, i) ==
    IF i > Len(sections) THEN <<>>
    ELSE IF Get(sections[i], "text", "") # ""
         THEN <<[score |-> _score_section(sections[i]), section |-> sections[i]]>>
              \o ScoredSections(sections, i + 1)
         ELSE ScoredSections(sections, i + 1)

\* A slip: the caller's list sorted by score itself (sections.sort(...)).
SectionsSortedInPlace(sections) ==
    LET scored == SortDesc([i \in 1..Len(sections) |->
                               [score |-> _score_section(sections[i]),
                                section |-> sections[i]]])
    IN  [i \in 1..Len(scored) |-> scored[i].section]

\* The caller's list after generate_bullets: the loop appends the scored
\* pairs to the new list scored_sections and .sort() reorders that list;
\* `sections` and its dicts are only read.
SectionsAfter(sections) == sections

Bullet(text, section, score, quality) ==
    [text |-> text,
     section |-> Get(section, "heading", "Section"),
     section_id |-> Get(section, "html_id", ""),
     score |-> score,
     quality |-> quality]

\* A variant: the first loop passing over the sections scored -100.
RECURSIVE FirstPassSkipExcluded(_, _, _, _)
FirstPassSkipExcluded(scored_sections, i, num_bullets, section_bullets) ==
    IF i > Len(scored_sections) THEN section_bullets
    ELSE LET section == scored_sections[i].section
             key_sentence ==
                 _extract_key_sentence(Get(section, "text", ""),
                                       Get(section, "heading", "Section"))
         IN  IF /\ scored_sections[i].score.num >= 0
                /\ key_sentence # ""
                /\ ~_is_generic_bullet(key_sentence)
             THEN LET more == Append(section_bullets,
                                     Bullet(key_sentence, section,
                                            scored_sections[i].score, "high"))
                  IN  IF Len(more) >= num_bullets THEN more
                      ELSE FirstPassSkipExcluded(scored_sections, i + 1,
                                                 num_bullets, more)
             ELSE FirstPassSkipExcluded(scored_sections, i + 1, num_bullets,
                                        section_bullets)

\* The first loop: one 'high' bullet per section whose key sentence is
\* non-empty and not generic, stopping once num_bullets are collected.
RECURSIVE FirstPass(_, _, _, _)

\* The body of the first loop once key_sentence is extracted.
TakeSentence(scored_sections, i, num_bullets, section_bullets, key_sentence) ==
    IF key_sentence # "" /\ ~_is_generic_bullet(key_sentence)
    THEN LET more == Append(section_bullets,
                            Bullet(key_sentence, scored_sections[i].section,
                                   scored_sections[i].score, "high"))
         IN  IF Len(more) >= num_bullets THEN more
             ELSE FirstPass(scored_sections, i + 1, num_bullets, more)
    ELSE FirstPass(scored_sections, i + 1, num_bullets, section_bullets)

FirstPass(scored_sections, i, num_bullets, section_bullets) ==
    IF i > Len(scored_sections) THEN section_bullets
    ELSE LET section == scored_sections[i].section
         IN  TakeSentence(scored_sections, i, num_bullets, section_bullets,
                          _extract_key_sentence(Get(section, "text", ""),
                                                Get(section, "heading", "Section")))

\* A slip: the fallback loop without its `if len(bullets) >= num_bullets: break`.
RECURSIVE FallbackNoBreak(_, _, _, _)
FallbackNoBreak(scored_sections, i, num_bullets, bullets) ==
    IF i > Len(scored_sections) THEN bullets
    ELSE LET section == scored_sections[i].section
             heading == Get(section, "heading", "Section")
         IN  IF lower(heading) \notin {"references", "see also", "notes", "external links"}
             THEN FallbackNoBreak(scored_sections, i + 1, num_bullets,
                     Append(bullets,
                            [text |-> heading \o ": "
                                        \o SubSeq(Get(section, "text", ""), 1,
                                                  Min(100, Len(Get(section, "text", "")))),
                             section |-> heading,
                             section_id |-> Get(section, "html_id", ""),
                             score |-> scored_sections[i].score,
                             quality |-> "medium"]))
             ELSE FallbackNoBreak(scored_sections, i + 1, num_bullets, bullets)

\* The fallback loop over scored_sections[len(section_bullets):].
RECURSIVE Fallback(_, _, _, _)
Fallback(scored_sections, i, num_bullets, bullets) ==
    IF i > Len(scored_sections) \/ Len(bullets) >= num_bullets THEN bullets
    ELSE LET section == scored_sections[i].section
             heading == Get(section, "heading", "Section")
         IN  IF lower(heading) \notin fallback_skip_headings
             THEN Fallback(scored_sections, i + 1, num_bullets,
                           Append(bullets,
                                  Bullet(heading \o ": "
                                           \o Prefix(Get(section, "text", ""), SnippetLen),
                                         section, scored_sections[i].score, "medium")))
             ELSE Fallback(scored_sections, i + 1, num_bullets, bullets)

\* bullets = section_bullets[:num_bullets], filled by the fallback loop.
FillBullets(scored_sections, num_bullets, section_bullets) ==
    IF Len(section_bullets) >= num_bullets
    THEN SubSeq(section_bullets, 1, num_bullets)
    ELSE Fallback(scored_sections, Len(section_bullets) + 1,
                  num_bullets, section_bullets)

generate_bullets(sections, num_bullets) ==
    IF sections = <<>> THEN <<>>
    ELSE LET scored_sections == SortDesc(ScoredSections(sections, 1))
         IN  FillBullets(scored_sections, num_bullets,
                         FirstPass(scored_sections, 1, num_bullets, <<>>))

(***************************************************************************)
(* Keyword extractor.                                                      *)
(***************************************************************************)

\* top_n: int = 10
DefaultTopN == 10

stop_words ==
    {"the", "a", "an", "is", "are", "was", "were", "be", "been",
     "have", "has", "had", "do", "does", "did", "in", "on", "at",
     "to", "of", "and", "or", "but", "not", "what", "which", "who",
     "when", "where", "why", "how", "all", "each", "every", "both",
     "few", "more", "most", "such", "as", "for", "from", "with",
     "by", "that", "this", "if", "no", "yes", "it", "its", "can",
     "will", "would", "could", "should", "may", "might", "must",
     "shall", "during", "before", "after", "also"}

noun_suffixes == {"tion", "ment", "ness", "ism", "ity", "ble"}

\* re.sub(r'[^a-z\s]', ' ', s)
LettersOnly(s) ==
    ConcatRange([i \in 1..Len(s) |->
                    IF At(s, i) \in LowerLetters \cup Whitespace THEN At(s, i) ELSE " "],
                1, Len(s))

\* len(w) > 3 and w not in stop_words and not w.isdigit() (after the
\* substitution a token holds letters only, so isdigit is always false).
Survives(w) == Len(w) > 3 /\ w \notin stop_words

\* A slip: no bonus for a noun suffix.
OccurrenceWeight2NoBonus(word) == IF word = "" THEN 0 ELSE 2

\* The weight of one occurrence, doubled: 1.5 -> 3, 1.0 -> 2.
OccurrenceWeight2(word) ==
    IF \E suffix \in noun_suffixes : endswith(word, suffix) THEN 3 ELSE 2

RECURSIVE IndexOfWord(_, _, _)
IndexOfWord(entries, word, i) ==
    IF i > Len(entries) THEN 0
    ELSE IF entries[i].word = word THEN i
    ELSE IndexOfWord(entries, word, i + 1)

\* keyword_weights, a dict: its entries in insertion order (Python >= 3.7),
\* a repeated word adding to its entry in place.
RECURSIVE KeywordWeights(_, _, _)
KeywordWeights(words, i, entries) ==
    IF i > Len(words) THEN entries
    ELSE IF ~Survives(words[i]) THEN KeywordWeights(words, i + 1, entries)
    ELSE LET k == IndexOfWord(entries, words[i], 1)
             w2 == OccurrenceWeight2(words[i])
         IN  IF k = 0
             THEN KeywordWeights(words, i + 1,
                     Append(entries, [word |-> words[i], score |-> FracOfInt(w2)]))
             ELSE KeywordWeights(words, i + 1,
                     [entries EXCEPT ![k].score = FracOfInt(@.num + w2)])

_extract_keywords(text, top_n) ==
    IF text = "" THEN <<>>
    ELSE LET words == split(LettersOnly(lower(text)))
             sorted_keywords == SortDesc(KeywordWeights(words, 1, <<>>))
         IN  [i \in 1..Min(top_n, Len(sorted_keywords)) |-> sorted_keywords[i].word]

(***************************************************************************)
(* Topic comparator.                                                       *)
(***************************************************************************)

\* list(S) for a set S of str.  CPython iterates a set in hash-table order
\* and salts str hashes with a per-process seed (PYTHONHASHSEED, random by
\* default), so the order of list(S) differs from one process to the next
\* and, within a process, with the way the set was built.  `seed` stands for
\* both: it selects one permutation of the elements.
RECURSIVE Canonical(_)
Canonical(S) ==
    IF S = {} THEN <<>>
    ELSE LET x == CHOOSE y \in S : TRUE IN <<x>> \o Canonical(S \ {x})

RECURSIVE Permute(_, _)
Permute(seq, seed) ==
    IF seq = <<>> THEN <<>>
    ELSE LET k == (seed % Len(seq)) + 1
         IN  <<seq[k]>>
             \o Permute(SubSeq(seq, 1, k - 1) \o SubSeq(seq, k + 1, Len(seq)),
                        seed \div Len(seq))

ListOfSet(S, seed) == Permute(Canonical(S), seed)

RECURSIVE Sentences(_, _, _)
Sentences(prefix, kws, i) ==
    IF i > Len(kws) THEN <<>>
    ELSE <<prefix \o kws[i]>> \o Sentences(prefix, kws, i + 1)

\* d.get(a, '') or d.get(b, '')
TextOf(content) ==
    IF Get(content, "extract", "") # "" THEN Get(content, "extract", "")
    ELSE Get(content, "content", "")

\* extract[:200] of an abstract without sentences
AbstractLen == 200

generate_abstract(content) ==
    LET extract == TextOf(content)
        sentences == _split_sentences(extract)
    IN  IF extract = ""
        THEN "Article about " \o Get(content, "title", "the topic") \o "."
        ELSE IF sentences # <<>>
             THEN Join(SubSeq(sentences, 1, Min(2, Len(sentences))), " ")
             ELSE Prefix(extract, AbstractLen) \o Ellipsis

\* num_points//2, the length of each of the three slices.
HalfPointsNoHalving(num_points) == num_points

HalfPoints(num_points) == num_points \div 2

compare_topics(topic1_content, topic2_content, num_points, seed) ==
    LET keywords1 == Range(_extract_keywords(TextOf(topic1_content), DefaultTopN))
        keywords2 == Range(_extract_keywords(TextOf(topic2_content), DefaultTopN))
        common == keywords1 \cap keywords2
        unique1 == keywords1 \ keywords2
        unique2 == keywords2 \ keywords1
        half == HalfPoints(num_points)
        Take(S) == LET l == ListOfSet(S, seed) IN SubSeq(l, 1, Min(half, Len(l)))
    IN  [topic1 |-> Get(topic1_content, "title", "Topic 1"),
         topic2 |-> Get(topic2_content, "title", "Topic 2"),
         similarities |-> Sentences("Both involve ", Take(common), 1),
         differences |->
             Sentences(Get(topic1_content, "title", "None") \o " relates to ",
                       Take(unique1), 1)
             \o Sentences(Get(topic2_content, "title", "None") \o " relates to ",
                          Take(unique2), 1)]

(***************************************************************************)
(* The agent: WikipediaAgent.summarize and summarize_async, which differ   *)
(* only in the fetch module they call and in awaiting the same steps.      *)
(***************************************************************************)

\* FetchModule._extract_sections_from_text: the section titles of a page
\* fetched without HTML.
_extract_sections_from_text(text) ==
    LET t == lower(text)
        sections ==
            IF text = "" THEN <<>>
            ELSE <<"Introduction">>
                 \o (IF Contains(t, "history") THEN <<"History">> ELSE <<>>)
                 \o (IF Contains(t, "properties") \/ Contains(t, "characteristics")
                     THEN <<"Properties">> ELSE <<>>)
                 \o (IF Contains(t, "applications") \/ Contains(t, "uses")
                     THEN <<"Applications">> ELSE <<>>)
                 \o (IF Contains(t, "see also") THEN <<"See Also">> ELSE <<>>)
    IN  IF sections # <<>> THEN sections ELSE <<"Content">>

\* content_text[:500], the text given to every section built from a title
SectionTextLen == 500

\* The sections summarize hands to the engine.  `parsed` is what
\* ParseModule.extract_sections returned for page_data['html'] (no sections
\* when there is no HTML); page_data['sections'] is a list of str titles.
AgentSections(page_data, parsed) ==
    LET section_titles == Get(page_data, "sections", <<>>)
        content_text == IF Get(page_data, "content", "") # ""
                        THEN Get(page_data, "content", "")
                        ELSE Get(page_data, "extract", "")
    IN  IF Get(page_data, "html", "") # "" /\ parsed # <<>> THEN parsed
        ELSE IF section_titles # <<>>
        THEN [i \in 1..Len(section_titles) |->
                 [heading |-> section_titles[i],
                  text |-> Prefix(content_text, SectionTextLen),
                  html_id |-> replace(lower(section_titles[i]), " ", "_")]]
        ELSE IF content_text # ""
        THEN <<[heading |-> "Content",
                text |-> Prefix(content_text, SectionTextLen),
                html_id |-> "content"]>>
        ELSE <<>>

\* f"{bullet.get('text', '')} (Section: {section})" for every engine bullet
FormatBullets(bullets) ==
    [i \in 1..Len(bullets) |->
        Get(bullets[i], "text", "") \o " (Section: "
        \o Get(bullets[i], "section", "Content") \o ")"]

\* A slip: no top-up of the formatted list.
PadSummaryNoPadding(formatted, title, bullets) == formatted

\* while len(formatted) < bullets: formatted.append(placeholder)
PadSummary(formatted, title, bullets) ==
    formatted
    \o [i \in 1..Max(0, bullets - Len(formatted)) |->
           "Key point about " \o title \o " (Section: Content)"]

\* generate_summary, of which summarize reads 'title', 'url' and 'bullets'.
generate_summary(content, num_bullets) ==
    [title |-> Get(content, "title", "Unknown"),
     url |-> Get(content, "url", ""),
     abstract |-> generate_abstract(content),
     bullets |-> generate_bullets(Get(content, "sections", <<>>), num_bullets),
     timestamp |-> Get(content, "timestamp", "")]

\* The dict summarize returns for a summary, without its 'timestamp' (the
\* wall clock).
SummaryResult(summary, bullets) ==
    [status |-> "success",
     title |-> summary.title,
     summary |-> PadSummary(FormatBullets(summary.bullets), summary.title, bullets),
     source_url |-> summary.url]

\* The dict summarize returns when the fetch failed.
ErrorResult(page_title, page_data) ==
    [status |-> "error", title |-> page_title,
     error |-> Get(page_data, "error", "Unknown error")]

\* The content summarize hands to generate_summary.
AgentContent(page_title, page_data, parsed) ==
    [title |-> Get(page_data, "title", page_title),
     url |-> Get(page_data, "url", ""),
     extract |-> Get(page_data, "extract", ""),
     content |-> Get(page_data, "content", ""),
     sections |-> AgentSections(page_data, parsed),
     timestamp |-> Get(page_data, "timestamp", "now")]

(***************************************************************************)
(* The page cache of FetchModule and AsyncFetchModule: one JSON file per   *)
(* page title in cache_dir.  `cache` maps the names of the files that      *)
(* exist to their contents; times are whole seconds of the wall clock.     *)
(***************************************************************************)

\* An exception that leaves the call.
Raised(exception) == [raised |-> exception]

\* The longest file name the file system takes.
NameMax == 255

\* A falsy 'timestamp' (the empty string).
EmptyTimestamp == 0

\* The content of a file that is open for writing and not yet written.
Partial == [partial |-> TRUE]

\* f"{page_title.replace(' ', '_')}.json", the name under cache_dir
FileName(page_title) == replace(page_title, " ", "_") \o ".json"

\* open(cache_file, 'w') succeeds: the name is one path component of legal
\* length (a '/' in it names a directory that does not exist).
CanCreate(name) == ~Contains(name, "/") /\ Len(name) <= NameMax

\* json.load(json.dump(data)): str, int and bool values and lists of them
\* come back as they are, a tuple comes back as a list.  The value of the
\* key 'extra' is a Python sequence [kind, items]; every other value is a
\* str, an int or a bool.
JsonRoundTrip(data) ==
    [k \in DOMAIN data |->
        IF k = "extra" THEN [kind |-> "list", items |-> data[k].items]
        ELSE data[k]]

\* if 'timestamp' not in data: data['timestamp'] = now; the caller's dict
\* is changed in place.
StampData(data, clock) ==
    IF "timestamp" \in DOMAIN data THEN data
    ELSE [k \in DOMAIN data \cup {"timestamp"} |->
             IF k = "timestamp" THEN clock ELSE data[k]]

\* The files after _save_to_cache: a write error is logged and dropped.
_save_to_cache(files, page_title, data, clock) ==
    LET name == FileName(page_title)
        written == JsonRoundTrip(StampData(data, clock))
    IN  IF CanCreate(name)
        THEN [n \in DOMAIN files \cup {name} |->
                 IF n = name THEN written ELSE files[n]]
        ELSE files

\* A slip: json.load outside the try block.
_get_from_cache_unguarded(files, page_title, clock, ttl, strict_exists) ==
    LET name == FileName(page_title)
    IN  IF Len(name) > NameMax /\ strict_exists THEN Raised("OSError")
        ELSE IF name \notin DOMAIN files THEN None
        ELSE IF files[name] = Partial THEN Raised("JSONDecodeError")
        ELSE LET cached_data == files[name]
                 timestamp == Get(cached_data, "timestamp", EmptyTimestamp)
             IN  IF timestamp = EmptyTimestamp THEN cached_data
                 ELSE IF clock - timestamp > ttl THEN None
                 ELSE cached_data

\* json.load meets a file that holds no complete JSON text: the
\* JSONDecodeError is caught and logged as '[WARN] Cache read error'.
ReadFails(files, page_title) ==
    FileName(page_title) \in DOMAIN files /\ files[FileName(page_title)] = Partial

\* The result of _get_from_cache.  cache_file.exists() stands outside the
\* try block: for a name longer than NameMax it raises OSError (pathlib
\* before Python 3.12 passes ENAMETOOLONG on) or answers False, by the
\* interpreter; `strict_exists` is the first of the two.
_get_from_cache(files, page_title, clock, ttl, strict_exists) ==
    LET name == FileName(page_title)
    IN  IF Len(name) > NameMax /\ strict_exists THEN Raised("OSError")
        ELSE IF name \notin DOMAIN files THEN None
        ELSE IF files[name] = Partial THEN None
        ELSE LET cached_data == files[name]
                 timestamp == Get(cached_data, "timestamp", EmptyTimestamp)
             IN  IF timestamp = EmptyTimestamp THEN cached_data
                 ELSE IF clock - timestamp > ttl THEN None
                 ELSE cached_data

(***************************************************************************)
(* fetch_page of FetchModule and of AsyncFetchModule, and                  *)
(* fetch_pages_batch.  A task is one run of fetch_page: its position, the  *)
(* attempts and Steel scrapes it has made, its result, and its rank in the *)
(* order of completion.  A batch runs one task per title on one event      *)
(* loop; the tasks interleave at their awaits.  The compare command of the *)
(* CLI runs two fetch_page calls of FetchModule on two threads.            *)
(***************************************************************************)

\* The fetch attempts and the backoff waits of a task, in order: attempt
\* number n of the loop, or a sleep of n seconds.
AttemptEvent(n) == [kind |-> "attempt", n |-> n]

WaitEvent(n) == [kind |-> "wait", n |-> n]

NewTask(page_title) ==
    [title |-> page_title, pc |-> "cache", attempt |-> 0, steel |-> 0,
     result |-> None, rank |-> 0, events |-> <<>>, last_error |-> "",
     read_errors |-> 0]

\* The task after attempt number `attempt`, which met `error` ('': a page).
Tried(task, attempt, error) ==
    [task EXCEPT !.attempt = attempt,
                 !.events = Append(@, AttemptEvent(attempt)),
                 !.last_error = error]

\* The record a successful fetch builds.
FetchedPage(page_title, source, clock) ==
    [title |-> page_title, content |-> "Text of " \o page_title,
     timestamp |-> clock, source |-> source, success |-> TRUE]

Failure(page_title, error) ==
    [success |-> FALSE, error |-> error, title |-> page_title]

\* What one attempt can meet: a page, an exception, and in the async module
\* a failure record of _fetch_via_api, here that of a missing page,
\* {'success': False, 'error': 'Page not found'} (the records of an HTTP
\* error and of an exception inside _fetch_via_api take the same path).
Outcomes(module) ==
    IF module = "AsyncFetchModule" THEN {"ok", "missing", "exception"}
    ELSE {"ok", "exception"}

\* A slip: every record counts as a page to cache.
SucceededAlways(data) == TRUE

\* if steel_data.get("success"): / if page_data.get("success"):
Succeeded(data) == Get(data, "success", FALSE)

\* The task has finished with `result`, after `done` other tasks.
Finish(task, result, done) ==
    [task EXCEPT !.pc = "done", !.result = result, !.rank = done + 1]

\* A slip: the cache consulted whatever use_cache says.
CacheLookupAlways(use_cache, files, page_title, clock, ttl, strict_exists) ==
    _get_from_cache(files, page_title, clock, ttl, strict_exists)

\* if use_cache: cached = self._get_from_cache(page_title)
CacheLookup(use_cache, files, page_title, clock, ttl, strict_exists) ==
    IF use_cache
    THEN _get_from_cache(files, page_title, clock, ttl, strict_exists)
    ELSE None

\* Where fetch_page goes after a cache miss.
AfterCache(steel) == IF steel THEN "steel" ELSE "attempt"

\* asyncio.gather(*tasks, return_exceptions=True) and the final list
\* comprehension: the results in the order of the tasks, an exception
\* turned into a failure record.
AsRecord(result) ==
    IF "raised" \in DOMAIN result
    THEN [success |-> FALSE, error |-> result.raised]
    ELSE result

\* A slip: the results in the order of completion (asyncio.as_completed).
GatherAsCompleted(ts) ==
    [i \in 1..Len(ts) |->
        AsRecord(ts[CHOOSE k \in 1..Len(ts) : ts[k].rank = i].result)]

GatherResults(ts) == [i \in 1..Len(ts) |-> AsRecord(ts[i].result)]

(***************************************************************************)
(* The inputs: concrete sections, texts and contents.                      *)
(***************************************************************************)

\* 13 words, a year, the content keywords 'founded' and 'significant'.
TextIntro == "The city was founded in 1990 and had a significant impact on trade."

\* 4 words and no full stop: no candidate, no substantial sentence.
TextSeeAlso == "List of related topics"

TextRefs == "Smith wrote the first history of the city in 2001."

\* 113 characters, one sentence that _is_generic_bullet rejects; its 100th and
\* 101st characters are the 's' and 't' of 'history'.
TextGeneric ==
    "Involves many moving parts across several different regions and "
    \o "further periods of a rather long history overall."

\* One candidate sentence of 25 words and 171 characters.
TextLong ==
    "The river valley between the northern mountains and the southern coast "
    \o "was settled by farmers who developed terraced fields and irrigation "
    \o "channels over several centuries."

\* One sentence of 44 words and 188 characters: too long to be a candidate.
TextRunOn ==
    "It is a place where the old town and the new town meet at the river and "
    \o "the main road runs past the market and the port to the hills in the "
    \o "east and then on to the far end of the bay area."

\* 3 words, 190 characters: neither a candidate nor a substantial sentence.
TextFewWords ==
    "Taumatawhakatangihangakoauauotamateaturipukakapikimaungahoronukupokaiwhenuakitanatahu "
    \o "Llanfairpwllgwyngyllgogerychwyrndrobwllllantysiliogogogoch "
    \o "Pneumonoultramicroscopicsilicovolcanoconiosis"

TextBlank == " "

TextHtml == "<p>Paris is the <b>largest</b> city of France.[1]</p>"

\* Sentences for texts of two sentences: two of equal score (7 distinct
\* words and a verb), one that a generic starter filters out and that would
\* score highest, one of 2 words, the candidate of TextIntro and the long
\* candidate of TextLong.
SentenceBridges == "The town has five old stone bridges."

SentenceCranes == "The port has nine tall steel cranes."

SentenceAlso == "Also the town was founded in 1850 by the first traders."

SentenceShort == "It rains."

SentencePool ==
    {SentenceBridges, SentenceCranes, SentenceAlso, SentenceShort, TextIntro, TextLong}

\* The texts of two sentences, one space apart.
TwoSentenceTexts == {a \o " " \o b : a, b \in SentencePool}

\* A heading of 68 characters.
LongHeading == "Economic and demographic developments during the early modern period"

Section(heading, text, html_id) ==
    [heading |-> heading, text |-> text, html_id |-> html_id]

SectionPool ==
    {Section("Introduction", TextIntro, "introduction"),
     Section("See Also", TextSeeAlso, "see_also"),
     Section("References", TextRefs, "references"),
     Section("History", TextGeneric, "history"),
     Section(LongHeading, TextGeneric, "economy"),
     Section("Etymology", TextFewWords, "etymology"),
     Section("Notes", TextBlank, "notes"),
     Section("Climate", "", "climate")}

\* Section records with keys missing.
SectionNoHeading == [text |-> TextIntro, html_id |-> "untitled"]

SectionNoHeadingGeneric == [text |-> TextGeneric, html_id |-> "untitled_generic"]

SectionNoText == [heading |-> "Legacy", html_id |-> "legacy"]

SectionNoKeys == [html_id |-> "bare"]

MalformedPool ==
    {SectionNoHeading, SectionNoHeadingGeneric, SectionNoText, SectionNoKeys,
     Section("Climate", "", "climate")}

HeadingPool ==
    {"References", "See Also", "NOTES", "External links", "Gallery", "infobox",
     "Introduction", "Career", "Geography", ""}

TextPool ==
    {TextIntro, TextSeeAlso, TextRefs, TextGeneric, TextLong, TextRunOn,
     TextFewWords, TextBlank, TextHtml, ""}

\* The longest section list, the largest num_bullets.
MaxSections == 2

MaxBullets == 3

SeqsUpTo(S, n) == UNION {[1..k -> S] : k \in 0..n}

\* Keyword texts: up to MaxWords words of KeywordVocabulary, one space apart,
\* and the text of the documented scenario.
KeywordVocabulary == {"river", "Nation", "creation.", "cat", "the", "ism"}

MaxWords == 3

MaxTopN == 3

ScenarioText == "The cat sat on the mat. Organization, nation, creation."

KeywordTexts == {Join(ws, " ") : ws \in SeqsUpTo(KeywordVocabulary, MaxWords)}

ContentPool ==
    {[title |-> "Alps", extract |-> "rivers mountains forests nation"],
     [title |-> "Andes", extract |-> "forests mountains rivers creation"],
     [title |-> "Gobi", extract |-> "deserts canyons plateaus"],
     [title |-> "Nile", extract |-> "", content |-> "rivers deserts"],
     [title |-> "Void"]}

\* Contents for generate_abstract: those of ContentPool, one with no text and
\* no title, one of three sentences, one of whitespace only.
AbstractPool ==
    ContentPool
    \cup {[title |-> "Test Topic", sections |-> <<>>],
          [content |-> ""],
          [title |-> "Paris", extract |-> TextIntro \o " " \o TextRefs \o "\n" \o TextSeeAlso],
          [title |-> "Blank", extract |-> TextBlank]}

\* Fetched pages.  A page fetched through wptools has no 'html' and the
\* section titles that _extract_sections_from_text finds in its extract.
PlainPage(title, text) ==
    [title |-> title, url |-> "https://en.wikipedia.org/wiki/" \o title,
     extract |-> text, content |-> text,
     sections |-> _extract_sections_from_text(text),
     timestamp |-> "2026-02-12T10:00:00", source |-> "wptools", success |-> TRUE]

\* A page fetched with its HTML, and the section titles the API listed.
HtmlPage(title, text, titles) ==
    [title |-> title, url |-> "https://en.wikipedia.org/wiki/" \o title,
     extract |-> text, content |-> text, html |-> "<h2>" \o title \o "</h2>",
     sections |-> titles,
     timestamp |-> "2026-02-12T10:00:00", source |-> "async_mediawiki_api",
     success |-> TRUE]

FailedPage(title) == [success |-> FALSE, error |-> "Page not found", title |-> title]

\* A text with the words 'history', 'uses' and 'see also'.
TextTitles ==
    "The history of the canal and its many uses were recorded in 1850. See also the lock."

\* The calls of summarize: the page that fetch_page returned and, for a page
\* with HTML, the sections that ParseModule.extract_sections returned.
SummarizeInputs ==
    {[page_data |-> PlainPage("Python", t), parsed |-> <<>>] :
        t \in {TextIntro, TextRefs, TextGeneric, TextTitles, TextSeeAlso, ""}}
    \cup {[page_data |-> HtmlPage("Java", TextIntro, <<"Overview", "See Also">>),
           parsed |-> ps] :
             ps \in {<<>>,
                     <<Section("Introduction", TextIntro, "introduction"),
                       Section("See Also", TextSeeAlso, "see_also")>>,
                     <<Section("History", TextGeneric, "history")>>,
                     <<Section("Climate", "", "climate")>>}}
    \cup {[page_data |-> FailedPage("Atlantis"), parsed |-> <<>>]}

\* A title of 300 characters.
LongTitle ==
    LET x50 == "xxxxxxxxxxxxxxxxxxxxxxxxxxxxxxxxxxxxxxxxxxxxxxxxxx"
        x150 == x50 \o x50 \o x50
    IN  x150 \o x150

\* Page titles: plain, with a space, with a slash, too long for a file name.
TitlePool == {"Python", "New York", "AC/DC", LongTitle}

\* cache_ttl_seconds of the configuration, and the last second of the clock;
\* the clock starts at StartClock.
cache_ttl == 2

MaxClock == 5

StartClock == EmptyTimestamp + 1

\* Records handed to _save_to_cache: with a current timestamp, without one,
\* with an empty one, with a list value.
CacheDataPool ==
    {[title |-> "Test Article", content |-> "Test content", timestamp |-> StartClock],
     [title |-> "Python", content |-> "Text", success |-> TRUE],
     [title |-> "Epoch", timestamp |-> EmptyTimestamp],
     [title |-> "Java", timestamp |-> StartClock,
      extra |-> [kind |-> "list", items |-> <<"Introduction", "History">>]]}

\* No file in cache_dir.
EmptyCache == <<>>

\* cache_dir with the page 'Python' saved at StartClock.
PythonCached ==
    [n \in {FileName("Python")} |-> FetchedPage("Python", "wptools", StartClock)]

\* The largest max_retries of the configuration.
MaxRetries == 2

\* The two topics of the compare command.
TopicPairs == {<<"New York", "New York">>, <<"Python", "AC/DC">>}

\* The title lists of fetch_pages_batch.
BatchPool ==
    {<<>>, <<"Python">>, <<"Python", "AC/DC">>, <<LongTitle, "Python">>,
     <<"New York", "New York">>, <<"AC/DC", "New York">>}

FetchCalls ==
    [op : {"fetch_page"}, module : {"FetchModule"}, page_title : TitlePool,
     use_cache : BOOLEAN, max_retries : 0..MaxRetries, steel : BOOLEAN]
    \cup [op : {"fetch_page"}, module : {"AsyncFetchModule"}, page_title : TitlePool,
          use_cache : BOOLEAN, max_retries : 0..MaxRetries, steel : {FALSE}]
    \cup [op : {"fetch_pages_batch"}, module : {"AsyncFetchModule"},
          page_titles : BatchPool, use_cache : {TRUE},
          max_retries : 0..MaxRetries, steel : {FALSE}]
    \cup [op : {"cli_compare"}, module : {"FetchModule"},
          page_titles : TopicPairs, use_cache : {TRUE},
          max_retries : 0..MaxRetries, steel : BOOLEAN]

FetchOps == {"fetch_page", "fetch_pages_batch", "cli_compare"}

MaxPoints == 4

\* The distinct per-process hash seeds the model draws from.
NumHashSeeds == 6

Calls ==
    [op : {"generate_bullets"},
     sections : SeqsUpTo(SectionPool, MaxSections),
     num_bullets : 0..MaxBullets]
    \cup [op : {"generate_bullets"},
          sections : SeqsUpTo(MalformedPool, MaxSections),
          num_bullets : 0..MaxBullets]
    \cup [op : {"generate_bullets"},
          sections : {AgentSections(in.page_data, in.parsed) : in \in SummarizeInputs},
          num_bullets : 0..MaxBullets]
    \cup [op : {"_score_section"},
          section : {Section(h, t, "") : h \in HeadingPool, t \in TextPool}
                    \cup MalformedPool]
    \cup [op : {"generate_abstract"}, content : AbstractPool]
    \cup {[op |-> o, page_title |-> "Query", page_data |-> in.page_data,
           parsed |-> in.parsed, bullets |-> b] :
             o \in {"summarize", "summarize_async"}, in \in SummarizeInputs,
             b \in 0..MaxBullets}
    \cup [op : {"_extract_key_sentence"}, text : TextPool, context : HeadingPool]
    \cup [op : {"_extract_key_sentence"}, text : TwoSentenceTexts,
          context : {"", "Port"}]
    \cup [op : {"_extract_keywords"}, text : KeywordTexts, top_n : 0..MaxTopN]
    \cup {[op |-> "_extract_keywords", text |-> ScenarioText, top_n |-> 5]}
    \cup [op : {"_save_to_cache"}, page_title : TitlePool, data : CacheDataPool]
    \cup FetchCalls
    \cup [op : {"compare_topics"},
          topic1_content : ContentPool,
          topic2_content : ContentPool,
          num_points : 0..MaxPoints]

(***************************************************************************)
(* The state machine: one call of one engine operation, and for            *)
(* compare_topics a second call (the same again, or with the two topics    *)
(* exchanged), possibly in another process.                                *)
(***************************************************************************)

Init ==
    /\ call \in Calls
    /\ pc = "call"
    /\ ret = None
    /\ ret2 = None
    /\ hashseed = 0
    /\ cache \in (IF call.op \in FetchOps THEN {EmptyCache, PythonCached}
                  ELSE {EmptyCache})
    /\ now \in (IF call.op = "fetch_page" THEN {StartClock, StartClock + cache_ttl + 1}
                ELSE {StartClock})
    /\ tasks = (IF call.op = "fetch_page" THEN <<NewTask(call.page_title)>>
                ELSE IF call.op \in {"fetch_pages_batch", "cli_compare"}
                THEN [i \in 1..Len(call.page_titles) |-> NewTask(call.page_titles[i])]
                ELSE <<>>)

GenerateBullets ==
    /\ pc = "call"
    /\ call.op = "generate_bullets"
    /\ ret' = generate_bullets(call.sections, call.num_bullets)
    /\ call' = [call EXCEPT !.sections = SectionsAfter(@)]
    /\ pc' = "done"
    /\ UNCHANGED <<ret2, hashseed, cache, now, tasks>>

ScoreSection ==
    /\ pc = "call"
    /\ call.op = "_score_section"
    /\ ret' = _score_section(call.section)
    /\ pc' = "done"
    /\ UNCHANGED <<call, ret2, hashseed, cache, now, tasks>>

ExtractKeySentence ==
    /\ pc = "call"
    /\ call.op = "_extract_key_sentence"
    /\ ret' = _extract_key_sentence(call.text, call.context)
    /\ pc' = "done"
    /\ UNCHANGED <<call, ret2, hashseed, cache, now, tasks>>

GenerateAbstract ==
    /\ pc = "call"
    /\ call.op = "generate_abstract"
    /\ ret' = generate_abstract(call.content)
    /\ pc' = "done"
    /\ UNCHANGED <<call, ret2, hashseed, cache, now, tasks>>

\* summarize after fetch_page has returned page_data: the locals `content`
\* and `summary` are bound in turn.
Summarize ==
    /\ pc = "call"
    /\ call.op = "summarize"
    /\ IF ~Get(call.page_data, "success", FALSE)
       THEN ret' = ErrorResult(call.page_title, call.page_data)
       ELSE \E content \in {AgentContent(call.page_title, call.page_data, call.parsed)} :
              \E summary \in {generate_summary(content, call.bullets)} :
                 ret' = SummaryResult(summary, call.bullets)
    /\ pc' = "done"
    /\ UNCHANGED <<call, ret2, hashseed, cache, now, tasks>>

\* summarize_async: the same steps after the awaited fetch_page.
SummarizeAsync ==
    /\ pc = "call"
    /\ call.op = "summarize_async"
    /\ IF ~Get(call.page_data, "success", FALSE)
       THEN ret' = ErrorResult(call.page_title, call.page_data)
       ELSE \E content \in {AgentContent(call.page_title, call.page_data, call.parsed)} :
              \E summary \in {generate_summary(content, call.bullets)} :
                 ret' = SummaryResult(summary, call.bullets)
    /\ pc' = "done"
    /\ UNCHANGED <<call, ret2, hashseed, cache, now, tasks>>

ExtractKeywords ==
    /\ pc = "call"
    /\ call.op = "_extract_keywords"
    /\ ret' = _extract_keywords(call.text, call.top_n)
    /\ pc' = "done"
    /\ UNCHANGED <<call, ret2, hashseed, cache, now, tasks>>

CompareTopics ==
    /\ pc = "call"
    /\ call.op = "compare_topics"
    /\ \E seed \in 0..(NumHashSeeds - 1) :
          /\ hashseed' = seed
          /\ ret' = compare_topics(call.topic1_content, call.topic2_content,
                                   call.num_points, seed)
    /\ pc' = "done"
    /\ UNCHANGED <<call, ret2, cache, now, tasks>>

CompareTopicsAgain ==
    /\ pc = "done"
    /\ call.op = "compare_topics"
    /\ \E seed \in 0..(NumHashSeeds - 1) :
          /\ hashseed' = seed
          /\ ret2' = compare_topics(call.topic1_content, call.topic2_content,
                                    call.num_points, seed)
    /\ pc' = "again"
    /\ UNCHANGED <<call, ret, cache, now, tasks>>

CompareTopicsSwapped ==
    /\ pc = "done"
    /\ call.op = "compare_topics"
    /\ \E seed \in 0..(NumHashSeeds - 1) :
          /\ hashseed' = seed
          /\ ret2' = compare_topics(call.topic2_content, call.topic1_content,
                                    call.num_points, seed)
    /\ pc' = "swapped"
    /\ UNCHANGED <<call, ret, cache, now, tasks>>

\* A second of the wall clock passes, before _save_to_cache or between it
\* and _get_from_cache.
Tick ==
    /\ call.op = "_save_to_cache"
    /\ pc \in {"call", "saved"}
    /\ now < MaxClock
    /\ now' = now + 1
    /\ UNCHANGED <<call, pc, ret, ret2, hashseed, cache, tasks>>

SaveToCache ==
    /\ pc = "call"
    /\ call.op = "_save_to_cache"
    /\ cache' = _save_to_cache(cache, call.page_title, call.data, now)
    /\ call' = [call EXCEPT !.data = StampData(call.data, now)]
    /\ pc' = "saved"
    /\ UNCHANGED <<ret, ret2, hashseed, now, tasks>>

GetFromCache ==
    /\ pc = "saved"
    /\ call.op = "_save_to_cache"
    /\ \E strict_exists \in BOOLEAN :
          ret' = _get_from_cache(cache, call.page_title, now, cache_ttl, strict_exists)
    /\ pc' = "got"
    /\ UNCHANGED <<call, ret2, hashseed, cache, now, tasks>>

\* A fetch call is running.
Fetching == pc = "call" /\ call.op \in FetchOps

NumDone == Cardinality({k \in 1..Len(tasks) : tasks[k].pc = "done"})

\* if use_cache: cached = _get_from_cache(page_title); if cached: return it
CheckCache(i) ==
    /\ Fetching
    /\ tasks[i].pc = "cache"
    /\ \E strict_exists \in BOOLEAN :
          LET cached == CacheLookup(call.use_cache, cache, tasks[i].title, now,
                                    cache_ttl, strict_exists)
              errors == IF call.use_cache /\ ReadFails(cache, tasks[i].title)
                        THEN 1 ELSE 0
          IN  tasks' = [tasks EXCEPT ![i] =
                  IF cached = None
                  THEN [@ EXCEPT !.pc = AfterCache(call.steel),
                                 !.read_errors = @ + errors]
                  ELSE Finish([@ EXCEPT !.read_errors = @ + errors],
                              cached, NumDone)]
    /\ UNCHANGED <<call, pc, ret, ret2, hashseed, cache, now>>

\* The Steel scrape of FetchModule.fetch_page, tried once before wptools.
SteelScrape(i) ==
    /\ Fetching
    /\ tasks[i].pc = "steel"
    /\ \E steel_data \in {FetchedPage(tasks[i].title, "steel", now),
                          Failure(tasks[i].title, "Steel API returned 500")} :
          tasks' = [tasks EXCEPT ![i] =
              IF Succeeded(steel_data)
              THEN [@ EXCEPT !.steel = @ + 1, !.pc = "save", !.result = steel_data]
              ELSE [@ EXCEPT !.steel = @ + 1, !.pc = "attempt"]]
    /\ UNCHANGED <<call, pc, ret, ret2, hashseed, cache, now>>

\* One turn of `for attempt in range(1, self.max_retries + 1)`, or the
\* return after the loop.
Attempt(i) ==
    /\ Fetching
    /\ tasks[i].pc = "attempt"
    /\ IF tasks[i].attempt >= call.max_retries
       THEN /\ tasks' = [tasks EXCEPT ![i] =
                   Finish(@, Failure(@.title, "Max retries exceeded"), NumDone)]
            /\ UNCHANGED cache
       ELSE \E outcome \in Outcomes(call.module) :
              LET attempt == tasks[i].attempt + 1
                  source == IF call.module = "FetchModule" THEN "wptools"
                            ELSE "async_mediawiki_api"
                  page == FetchedPage(tasks[i].title, source, now)
              IN  CASE outcome = "ok" /\ call.module = "FetchModule" ->
                         /\ tasks' = [tasks EXCEPT ![i] =
                                [Tried(@, attempt, "") EXCEPT !.pc = "save",
                                                                !.result = page]]
                         /\ UNCHANGED cache
                    [] outcome \in {"ok", "missing"} /\ call.module # "FetchModule" ->
                         LET page_data == IF outcome = "ok" THEN page
                                          ELSE Failure(tasks[i].title, "Page not found")
                         IN  /\ tasks' = [tasks EXCEPT ![i] =
                                    IF Succeeded(page_data)
                                    THEN [Tried(@, attempt, "") EXCEPT
                                             !.pc = "save", !.result = page_data]
                                    ELSE Tried(@, attempt, page_data.error)]
                             /\ UNCHANGED cache
                    [] outcome = "exception" ->
                         /\ tasks' = [tasks EXCEPT ![i] =
                                IF attempt < call.max_retries
                                THEN [Tried(@, attempt, "connection error")
                                         EXCEPT !.pc = "backoff"]
                                ELSE Finish(Tried(@, attempt, "connection error"),
                                            Failure(@.title, "connection error"),
                                            NumDone)]
                         /\ UNCHANGED cache
    /\ UNCHANGED <<call, pc, ret, ret2, hashseed, now>>

\* time.sleep(2 ** attempt) or await asyncio.sleep(2 ** attempt)
Backoff(i) ==
    /\ Fetching
    /\ tasks[i].pc = "backoff"
    /\ tasks' = [tasks EXCEPT ![i] =
           [@ EXCEPT !.pc = "attempt",
                     !.events = Append(@, WaitEvent(2 ^ tasks[i].attempt))]]
    /\ UNCHANGED <<call, pc, ret, ret2, hashseed, cache, now>>

\* _save_to_cache, first step: the file is opened for writing (and
\* emptied), or the error is logged and the page returned.  The async
\* module awaits here; a thread of the sync module can be switched out.
SaveOpen(i) ==
    /\ Fetching
    /\ tasks[i].pc = "save"
    /\ LET name == FileName(tasks[i].title)
       IN  IF CanCreate(name)
           THEN /\ cache' = [n \in DOMAIN cache \cup {name} |->
                                IF n = name THEN Partial ELSE cache[n]]
                /\ tasks' = [tasks EXCEPT ![i] = [@ EXCEPT !.pc = "write"]]
           ELSE /\ tasks' = [tasks EXCEPT ![i] = Finish(@, @.result, NumDone)]
                /\ UNCHANGED cache
    /\ UNCHANGED <<call, pc, ret, ret2, hashseed, now>>

\* _save_to_cache, second step: the JSON text is written.
SaveWrite(i) ==
    /\ Fetching
    /\ tasks[i].pc = "write"
    /\ cache' = _save_to_cache(cache, tasks[i].title, tasks[i].result, now)
    /\ tasks' = [tasks EXCEPT ![i] = Finish(@, @.result, NumDone)]
    /\ UNCHANGED <<call, pc, ret, ret2, hashseed, now>>

\* fetch_page returns its record, or the exception leaves it.
FetchReturn ==
    /\ Fetching
    /\ call.op = "fetch_page"
    /\ tasks[1].pc = "done"
    /\ ret' = tasks[1].result
    /\ pc' = "done"
    /\ UNCHANGED <<call, ret2, hashseed, cache, now, tasks>>

\* fetch_pages_batch returns once every task has finished.
BatchReturn ==
    /\ Fetching
    /\ call.op = "fetch_pages_batch"
    /\ \A k \in 1..Len(tasks) : tasks[k].pc = "done"
    /\ ret' = GatherResults(tasks)
    /\ pc' = "done"
    /\ UNCHANGED <<call, ret2, hashseed, cache, now, tasks>>

\* The compare command has both results: future1.result() and
\* future2.result(), the first exception leaving the command.
ParallelResults(ts) ==
    IF \E k \in 1..Len(ts) : "raised" \in DOMAIN ts[k].result
    THEN ts[CHOOSE k \in 1..Len(ts) :
                /\ "raised" \in DOMAIN ts[k].result
                /\ \A j \in 1..(k - 1) : "raised" \notin DOMAIN ts[j].result].result
    ELSE [k \in 1..Len(ts) |-> ts[k].result]

CompareFetched ==
    /\ Fetching
    /\ call.op = "cli_compare"
    /\ \A k \in 1..Len(tasks) : tasks[k].pc = "done"
    /\ ret' = ParallelResults(tasks)
    /\ pc' = "done"
    /\ UNCHANGED <<call, ret2, hashseed, cache, now, tasks>>

Next ==
    \/ GenerateBullets
    \/ ScoreSection
    \/ ExtractKeySentence
    \/ GenerateAbstract
    \/ Summarize
    \/ SummarizeAsync
    \/ ExtractKeywords
    \/ CompareTopics
    \/ CompareTopicsAgain
    \/ CompareTopicsSwapped
    \/ Tick
    \/ SaveToCache
    \/ GetFromCache
    \/ \E i \in 1..Len(tasks) : CheckCache(i)
    \/ \E i \in 1..Len(tasks) : SteelScrape(i)
    \/ \E i \in 1..Len(tasks) : Attempt(i)
    \/ \E i \in 1..Len(tasks) : Backoff(i)
    \/ \E i \in 1..Len(tasks) : SaveOpen(i)
    \/ \E i \in 1..Len(tasks) : SaveWrite(i)
    \/ FetchReturn
    \/ BatchReturn
    \/ CompareFetched

Spec == Init /\ [][Next]_vars

(***************************************************************************)
(* Properties.                                                             *)
(***************************************************************************)

Returned(op) == pc = "done" /\ call.op = op

BulletsReturned == Returned("generate_bullets")

\* The sections of the call with non-empty text.
TextSections == {i \in 1..Len(call.sections) : Get(call.sections[i], "text", "") # ""}

\* C1: for every num_bullets >= 0 and every list of sections,
\* generate_bullets returns at most num_bullets bullets.
C1_BoundRespected == BulletsReturned => Len(ret) <= call.num_bullets

\* More sections with text than bullets asked for, and the bound is met.
C1_Witness ==
    /\ BulletsReturned
    /\ call.num_bullets >= 1
    /\ Cardinality(TextSections) > call.num_bullets
    /\ Len(ret) = call.num_bullets

\* C2: generate_bullets never returns a bullet of quality 'high' whose source
\* section has the heading "References".
C2_NoHighFromReferences ==
    BulletsReturned =>
        \A i \in 1..Len(ret) :
            ret[i].quality = "high" => ret[i].section # "References"

\* C3: for [Introduction with informative text, "See Also" with non-empty
\* text] and num_bullets = 3, generate_bullets returns exactly one bullet,
\* sourced from Introduction.
C3_SeeAlsoScenario ==
    ( /\ BulletsReturned
      /\ call.num_bullets = 3
      /\ Len(call.sections) = 2
      /\ Get(call.sections[1], "heading", "Section") = "Introduction"
      /\ Get(call.sections[1], "text", "") = TextIntro
      /\ Get(call.sections[2], "heading", "Section") = "See Also"
      /\ Get(call.sections[2], "text", "") # "" )
    => (Len(ret) = 1 /\ ret[1].section = "Introduction")

\* C4: every returned bullet, 'high' or 'medium', has a text of at most
\* 150 + 3 characters.
C4_TextCapped ==
    BulletsReturned => \A i \in 1..Len(ret) : Len(ret[i].text) <= 153

\* The length of the word of s that holds position k (0: k is whitespace).
WordLenAt(s, k) ==
    LET rs == RunsRange([i \in 1..Len(s) |-> At(s, i) \notin Whitespace], 1, Len(s))
    IN  IF \E n \in 1..Len(rs) : rs[n][1] <= k /\ k <= rs[n][2]
        THEN LET n == CHOOSE n \in 1..Len(rs) : rs[n][1] <= k /\ k <= rs[n][2]
             IN  rs[n][2] - rs[n][1] + 1
        ELSE 0

\* Keeping the first k characters of s splits no word, or only a word that
\* is itself longer than 150 characters.
CutOnWordBoundary(s, k) ==
    \/ k >= Len(s)
    \/ At(s, k) \in Whitespace
    \/ At(s, k + 1) \in Whitespace
    \/ WordLenAt(s, k) > 150

\* The section of the call that a bullet names.
SourceOf(bullet) ==
    CHOOSE sec \in Range(call.sections) :
        /\ Get(sec, "heading", "Section") = bullet.section
        /\ Get(sec, "html_id", "") = bullet.section_id

\* C5: whenever the text of a returned bullet is a shortened form of its
\* source text, the cut falls on a word boundary (no word is split, unless
\* that word is itself longer than 150 characters): for a 'high' bullet the
\* key sentence is a sentence of the cleaned text or a prefix of one cut on a
\* word boundary, for a 'medium' bullet the 100-character snippet is.
C5_CutOnWordBoundary ==
    BulletsReturned =>
        \A i \in 1..Len(ret) :
            LET text == SourceOf(ret[i]).text
                sentences == Range(_split_sentences(_clean_html_text(text)))
                kept == IF ret[i].text \notin sentences /\ endswith(ret[i].text, "...")
                        THEN SubSeq(ret[i].text, 1, Len(ret[i].text) - 3)
                        ELSE ret[i].text
            IN  IF ret[i].quality = "medium"
                THEN CutOnWordBoundary(text, 100)
                ELSE \E sent \in sentences :
                        /\ startswith(sent, kept)
                        /\ CutOnWordBoundary(sent, Len(kept))

\* C7: two invocations of compare_topics with the same contents and the same
\* num_points return the same similarities and the same differences.
C7_CompareDeterministic ==
    (pc = "again" /\ call.op = "compare_topics") =>
        /\ ret2.similarities = ret.similarities
        /\ ret2.differences = ret.differences

\* C8: the similarities of compare_topics(t1, t2, n) and of
\* compare_topics(t2, t1, n) are equal as sets.
C8_CompareSymmetric ==
    (pc = "swapped" /\ call.op = "compare_topics") =>
        Range(ret2.similarities) = Range(ret.similarities)

\* The headings the claim lists.
C9_Headings ==
    {"references", "see also", "notes", "external links", "gallery", "infobox"}

\* C9: _score_section returns exactly -100 for every section whose heading,
\* lowercased, is one of references, see also, notes, external links,
\* gallery, infobox, whatever the section text is.
C9_HardExclusionScore ==
    ( /\ Returned("_score_section")
      /\ lower(Get(call.section, "heading", "")) \in C9_Headings )
    => (ret.num = -100 /\ ret.den = 1)

\* A text with a year, digits and content keywords under an excluded heading
\* written in capitals.
C9_Witness ==
    /\ Returned("_score_section")
    /\ Get(call.section, "heading", "") = "NOTES"
    /\ Get(call.section, "text", "") = TextIntro
    /\ ret.num = -100
    /\ ret.den = 1

\* The lowercase letter-only tokens of the text of the call.
Tokens == split(LettersOnly(lower(call.text)))

Count(w) == Cardinality({k \in 1..Len(Tokens) : Tokens[k] = w})

C10_Suffixed(w) ==
    \E suffix \in {"tion", "ment", "ness", "ism", "ity", "ble"} : endswith(w, suffix)

\* ret places s before t: t is absent, or s stands at an earlier position.
PlacedBefore(s, t) ==
    \A j \in 1..Len(ret) :
        ret[j] = t => \E i \in 1..(j - 1) : ret[i] = s

C10_Scenario ==
    (call.text = ScenarioText /\ call.top_n = 5) =>
        /\ {"organization", "nation", "creation"} \subseteq Range(ret)
        /\ \A s \in {"organization", "nation", "creation"} :
              \A t \in {"cat", "mat"} : PlacedBefore(s, t)

\* C10 as stated: in the scenario organization, nation and creation rank
\* above cat and mat, and every token ending in a noun suffix is placed
\* before every non-suffixed token that occurs the same number of times.
C10_SuffixFirst_AnyToken ==
    Returned("_extract_keywords") =>
        /\ C10_Scenario
        /\ \A s, t \in Range(Tokens) :
              (C10_Suffixed(s) /\ ~C10_Suffixed(t) /\ Count(s) = Count(t))
              => PlacedBefore(s, t)

\* C10 as amended: the same for every token of more than 3 characters that
\* ends in a noun suffix.
C10_SuffixFirst ==
    Returned("_extract_keywords") =>
        /\ C10_Scenario
        /\ \A s, t \in Range(Tokens) :
              (C10_Suffixed(s) /\ Len(s) > 3 /\ ~C10_Suffixed(t)
               /\ Count(s) = Count(t))
              => PlacedBefore(s, t)

\* 'river' is seen first, 'nation' occurs as often and is returned first.
C10_Witness ==
    /\ Returned("_extract_keywords")
    /\ call.text = "river Nation"
    /\ call.top_n = 2
    /\ ret = <<"nation", "river">>

\* The keyword sets of the two contents of the call.
Keywords1 == Range(_extract_keywords(TextOf(call.topic1_content), DefaultTopN))

Keywords2 == Range(_extract_keywords(TextOf(call.topic2_content), DefaultTopN))

\* C11: for every num_points >= 0, compare_topics returns at most
\* num_points//2 similarities and at most 2*(num_points//2) differences, and
\* no similarity at all when the two keyword sets are disjoint.
C11_ComparisonBounded ==
    (Returned("compare_topics") /\ call.num_points >= 0) =>
        /\ Len(ret.similarities) <= call.num_points \div 2
        /\ Len(ret.differences) <= 2 * (call.num_points \div 2)
        /\ (Keywords1 \cap Keywords2 = {} => Len(ret.similarities) = 0)

\* Disjoint keyword sets of 4 and 3 words, num_points = 4: no similarity and
\* 2 + 2 differences, the cap cutting both unique sets.
C11_Witness ==
    /\ Returned("compare_topics")
    /\ call.num_points = 4
    /\ Keywords1 \cap Keywords2 = {}
    /\ Cardinality(Keywords1) > 2
    /\ Cardinality(Keywords2) > 2
    /\ Len(ret.similarities) = 0
    /\ Len(ret.differences) = 4

\* The bullets of ret that carry the html_id of section k of the call.
BulletsOf(k) ==
    {i \in 1..Len(ret) : ret[i].section_id = Get(call.sections[k], "html_id", "")}

\* C12: empty and malformed inputs give a result, not an exception:
\* generate_bullets of no sections returns no bullets; a section whose text
\* is missing or empty is the source of no bullet; a bullet of a section
\* without a heading carries the default heading; _extract_keywords of the
\* empty text returns no keyword; generate_abstract of a content without
\* text returns "Article about {title}.".
C12_DegenerateInputs ==
    /\ Returned("generate_bullets") =>
          /\ (call.sections = <<>> => ret = <<>>)
          /\ \A k \in 1..Len(call.sections) :
                /\ Get(call.sections[k], "text", "") = "" => BulletsOf(k) = {}
                /\ "heading" \notin DOMAIN call.sections[k] =>
                      \A i \in BulletsOf(k) : ret[i].section = "Section"
    /\ (Returned("_extract_keywords") /\ call.text = "") => ret = <<>>
    /\ (Returned("generate_abstract") /\ TextOf(call.content) = "") =>
          /\ ret = "Article about " \o Get(call.content, "title", "the topic") \o "."
          /\ ret # ""

\* A section without heading next to one without text: one bullet, under the
\* default heading.
C12_Witness ==
    /\ Returned("generate_bullets")
    /\ call.sections = <<SectionNoText, SectionNoHeading>>
    /\ call.num_bullets = 2
    /\ Len(ret) = 1
    /\ ret[1].section = "Section"
    /\ ret[1].section_id = "untitled"

\* A call of summarize or summarize_async has returned.
Summarized == pc = "done" /\ call.op \in {"summarize", "summarize_async"}

\* The bullets the engine returns for the sections of the call.
EngineBullets ==
    generate_bullets(AgentSections(call.page_data, call.parsed), call.bullets)

Placeholder == "Key point about " \o ret.title \o " (Section: Content)"

\* C13: when the fetch succeeded, summarize and summarize_async return a
\* 'summary' of exactly `bullets` entries: the engine's bullets first, in the
\* engine's order, then placeholders up to the count.
C13_SummaryFilled ==
    (Summarized /\ Get(call.page_data, "success", FALSE) /\ call.bullets >= 0) =>
        /\ ret.status = "success"
        /\ Len(ret.summary) = call.bullets
        /\ Len(EngineBullets) <= call.bullets
        /\ \A i \in 1..Len(ret.summary) :
              IF i <= Len(EngineBullets)
              THEN ret.summary[i] = EngineBullets[i].text \o " (Section: "
                                    \o EngineBullets[i].section \o ")"
              ELSE ret.summary[i] = Placeholder

\* Three entries asked for, one from the engine, two placeholders.
C13_Witness ==
    /\ Summarized
    /\ call.bullets = 3
    /\ Len(EngineBullets) = 1
    /\ Len(ret.summary) = 3
    /\ ret.summary[1] = TextIntro \o " (Section: Introduction)"
    /\ ret.summary[2] = "Key point about Python (Section: Content)"
    /\ ret.summary[3] = ret.summary[2]

\* The sections of the call with non-empty text whose key sentence is
\* non-empty and not generic.
Informative ==
    {k \in TextSections :
        LET key_sentence ==
                _extract_key_sentence(Get(call.sections[k], "text", ""),
                                      Get(call.sections[k], "heading", "Section"))
        IN  key_sentence # "" /\ ~_is_generic_bullet(key_sentence)}

PositionsOf(id) ==
    {k \in 1..Len(call.sections) : Get(call.sections[k], "html_id", "") = id}

\* C19: in the list generate_bullets returns, no section is the source of
\* more than one bullet: the bullets that carry a section's html_id are at
\* most as many as the sections of the call with that html_id.
C19_OneBulletPerSection ==
    BulletsReturned =>
        \A i \in 1..Len(ret) :
            Cardinality({j \in 1..Len(ret) : ret[j].section_id = ret[i].section_id})
            <= Cardinality(PositionsOf(ret[i].section_id))

\* C20: no two bullets of the list generate_bullets returns have the same
\* text.
C20_DistinctTexts ==
    BulletsReturned =>
        \A i, j \in 1..Len(ret) : i # j => ret[i].text # ret[j].text

\* C15: after _save_to_cache(title, data), _get_from_cache(title) returns a
\* record equal to data while the record's timestamp is at most cache_ttl
\* seconds old, and None once it is older.
C15_CacheRoundTrip ==
    (pc = "got" /\ call.data.timestamp # EmptyTimestamp) =>
        IF now - call.data.timestamp <= cache_ttl
        THEN ret = call.data
        ELSE ret = None

\* fetch_pages_batch has returned.
BatchReturned == pc = "done" /\ call.op = "fetch_pages_batch"

\* C16: fetch_pages_batch returns one record per requested title, the
\* record at position i being the outcome of the fetch of the i-th title
\* whatever the order of completion; every record carries a boolean
\* 'success', a failure record carries an 'error', and no exception of a
\* fetch leaves the batch.
C16_BatchInOrder ==
    BatchReturned =>
        /\ Len(ret) = Len(call.page_titles)
        /\ \A i \in 1..Len(ret) :
              /\ ret[i] = AsRecord(tasks[i].result)
              /\ tasks[i].title = call.page_titles[i]
              /\ "raised" \notin DOMAIN ret[i]
              /\ Get(ret[i], "success", None) \in BOOLEAN
              /\ ret[i].success => "content" \in DOMAIN ret[i]
              /\ ~ret[i].success => "error" \in DOMAIN ret[i]
              /\ "title" \in DOMAIN ret[i] => ret[i].title = call.page_titles[i]

\* The fetch of the second title completes first and succeeds, the fetch
\* of the first title fails after it.
C16_Witness ==
    /\ BatchReturned
    /\ call.page_titles = <<"Python", "AC/DC">>
    /\ tasks[1].rank = 2
    /\ tasks[2].rank = 1
    /\ ~ret[1].success
    /\ ret[2].success
    /\ ret[2].title = "AC/DC"

\* An exception of one fetch has become the failure record of its title.
C16_ExceptionWitness ==
    /\ BatchReturned
    /\ Len(ret) = 2
    /\ "raised" \in DOMAIN tasks[1].result
    /\ ret[1] = [success |-> FALSE, error |-> "OSError"]
    /\ ret[2].success

\* fetch_page has returned or raised.
FetchReturned == pc = "done" /\ call.op = "fetch_page"

\* C17: a call of fetch_page of either module ends with a record and not
\* with an exception; it has made at most max_retries attempts and at most
\* one Steel scrape; a record that is not a page is a failure record; and
\* with max_retries = 0 no attempt is made and the failure returned is
\* 'Max retries exceeded'.
C17_FetchReturnsRecord ==
    FetchReturned =>
        /\ "raised" \notin DOMAIN ret
        /\ Get(ret, "success", None) \in BOOLEAN
        /\ tasks[1].attempt <= call.max_retries
        /\ tasks[1].steel <= 1
        /\ call.module = "AsyncFetchModule" => tasks[1].steel = 0
        /\ call.max_retries = 0 =>
              /\ tasks[1].attempt = 0
              /\ ~Get(ret, "success", FALSE) =>
                    ret = Failure(call.page_title, "Max retries exceeded")

\* The operations of the summarization engine.
EngineOps ==
    {"generate_bullets", "_score_section", "_extract_key_sentence",
     "_extract_keywords", "compare_topics"}

FallbackSources ==
    {k \in TextSections \ Informative :
        lower(Get(call.sections[k], "heading", "Section")) \notin fallback_skip_headings}

\* C21: when the first pass collects fewer than num_bullets 'high' bullets,
\* the sections with text that gave no 'high' bullet and whose heading is
\* not one of the four skipped ones each give a 'medium' bullet until
\* num_bullets is reached: the list has min(num_bullets, k + their number)
\* bullets, k being the number of 'high' bullets.
C21_FallbackCoverage ==
    (BulletsReturned /\ Cardinality(Informative) < call.num_bullets) =>
        /\ Len(ret) = Min(call.num_bullets,
                          Cardinality(Informative) + Cardinality(FallbackSources))
        /\ Len(ret) < call.num_bullets =>
              \A k \in FallbackSources :
                  \E i \in 1..Len(ret) :
                      /\ ret[i].quality = "medium"
                      /\ ret[i].section_id = Get(call.sections[k], "html_id", "")

\* The positions of the section list of the call that bullet b can come
\* from: the heading, the html_id and the text of b are those of the section.
SourcesOf(b) ==
    {k \in TextSections :
        LET heading == Get(call.sections[k], "heading", "Section")
            text == Get(call.sections[k], "text", "")
        IN  /\ b.section = heading
            /\ b.section_id = Get(call.sections[k], "html_id", "")
            /\ b.text = IF b.quality = "high"
                        THEN _extract_key_sentence(text, heading)
                        ELSE heading \o ": " \o Prefix(text, SnippetLen)}

\* C22: in the list generate_bullets returns no 'medium' bullet stands
\* before a 'high' one; within the 'high' bullets and within the 'medium'
\* bullets the scores do not increase; and of two bullets of one group with
\* the same score the earlier one comes from the earlier section of the
\* input list.
C22_BulletOrder ==
    BulletsReturned =>
        \A i, j \in 1..Len(ret) :
            i < j =>
                /\ ~(ret[i].quality = "medium" /\ ret[j].quality = "high")
                /\ ret[i].quality = ret[j].quality =>
                      /\ FracGE(ret[i].score, ret[j].score)
                      /\ FracGE(ret[j].score, ret[i].score) =>
                            \E p \in SourcesOf(ret[i]) :
                                \E q \in SourcesOf(ret[j]) : p < q

\* Two bullets of the same group and score from two different sections.
C22_Witness ==
    /\ BulletsReturned
    /\ Len(ret) = 2
    /\ ret[1].quality = ret[2].quality
    /\ ret[1].score = ret[2].score
    /\ ret[1].section # ret[2].section

\* A 'high' bullet followed by a 'medium' bullet of another section.
C22_MixedWitness ==
    /\ BulletsReturned
    /\ Len(ret) = 2
    /\ ret[1].quality = "high"
    /\ ret[2].quality = "medium"
    /\ ret[1].section # ret[2].section

\* The tokens of the text of the call that the filter keeps.
Survivors == {w \in Range(Tokens) : Len(w) > 3 /\ w \notin stop_words}

\* The accumulated weight of token w, doubled: 3 per occurrence with a noun
\* suffix, 2 per occurrence without.
Weight2(w) == Count(w) * (IF C10_Suffixed(w) THEN 3 ELSE 2)

\* The position of the first occurrence of w in the text.
FirstSeen(w) == CHOOSE k \in 1..Len(Tokens) :
                    Tokens[k] = w /\ \A j \in 1..(k - 1) : Tokens[j] # w

\* s ranks before t: its weight is larger, or equal with s seen first.
RanksBefore(s, t) ==
    \/ Weight2(s) > Weight2(t)
    \/ Weight2(s) = Weight2(t) /\ FirstSeen(s) < FirstSeen(t)

\* C23: _extract_keywords returns min(top_n, number of surviving tokens)
\* distinct surviving tokens, by weight from the largest down and, at equal
\* weight, in the order of their first occurrence in the text; every token
\* left out ranks after every token returned.
C23_KeywordOrder ==
    Returned("_extract_keywords") =>
        /\ Len(ret) = Min(call.top_n, Cardinality(Survivors))
        /\ Range(ret) \subseteq Survivors
        /\ \A i, j \in 1..Len(ret) : i < j => RanksBefore(ret[i], ret[j])
        /\ \A s \in Survivors \ Range(ret) :
              \A i \in 1..Len(ret) : RanksBefore(ret[i], s)

\* Two tokens of weight 1.5 and top_n = 1: the one seen first is kept.
C23_Witness ==
    /\ Returned("_extract_keywords")
    /\ call.text = "creation. Nation river"
    /\ call.top_n = 1
    /\ ret = <<"creation">>

\* The sentences of the cleaned text of the call.
KeySentences == _split_sentences(_clean_html_text(call.text))

\* The positions of the sentences of 5 to 30 words that do not start with a
\* generic starter.
Candidates ==
    {k \in 1..Len(KeySentences) :
        /\ Len(split(KeySentences[k])) \in 5..30
        /\ \A st \in generic_starters : ~startswith(lower(KeySentences[k]), st)}

\* The first of the candidates of maximal score.
BestCandidate ==
    CHOOSE k \in Candidates :
        \A j \in Candidates :
            LET sk == SentenceScore2(KeySentences[k], call.context)
                sj == SentenceScore2(KeySentences[j], call.context)
            IN  sk > sj \/ (sk = sj /\ k <= j)

\* C24: when the cleaned text has a sentence of 5 to 30 words that does not
\* start with a generic starter, _extract_key_sentence returns the
\* truncation of such a sentence: the one of maximal score and, among those
\* of equal score, the first in the text.
C24_BestCandidate ==
    (Returned("_extract_key_sentence") /\ Candidates # {}) =>
        ret = TruncateSentence(KeySentences[BestCandidate])

\* A filtered-out sentence of higher score precedes the candidate returned.
C24_Witness ==
    /\ Returned("_extract_key_sentence")
    /\ call.text = SentenceAlso \o " " \o SentenceBridges
    /\ call.context = ""
    /\ ret = SentenceBridges

\* Two candidates of equal score: the first is returned.
C24_TieWitness ==
    /\ Returned("_extract_key_sentence")
    /\ call.text = SentenceCranes \o " " \o SentenceBridges
    /\ call.context = ""
    /\ SentenceScore2(SentenceCranes, "") = SentenceScore2(SentenceBridges, "")
    /\ ret = SentenceCranes

\* The tasks of a fetch call, running or finished.
FetchTasks == IF call.op \in FetchOps THEN 1..Len(tasks) ELSE {}

\* C25: in every fetch_page call, each attempt after the first directly
\* follows a wait of 2^k seconds, k being the number of the attempt before
\* it, whether that attempt raised or returned an unsuccessful result; and a
\* finished call does not end with a wait.
C25_BackoffBeforeRetry ==
    \A i \in FetchTasks :
        LET events == tasks[i].events
        IN  /\ \A e \in 1..Len(events) :
                  (events[e].kind = "attempt" /\ events[e].n > 1) =>
                      /\ e > 1
                      /\ events[e - 1] = WaitEvent(2 ^ (events[e].n - 1))
            /\ (tasks[i].pc = "done" /\ events # <<>>) =>
                  events[Len(events)].kind = "attempt"

\* C26: when the attempts of AsyncFetchModule.fetch_page end in failure and
\* the last one met a missing page, the record returned carries the error
\* of that attempt, 'Page not found'.
C26_LastErrorReturned ==
    \A i \in FetchTasks :
        (/\ call.module = "AsyncFetchModule"
         /\ tasks[i].pc = "done"
         /\ tasks[i].last_error = "Page not found") =>
            AsRecord(tasks[i].result) = Failure(tasks[i].title, "Page not found")

\* The cache holds a complete record for the title that is not older than
\* cache_ttl (a record without timestamp does not age).
HasUnexpired(page_title) ==
    /\ FileName(page_title) \in DOMAIN cache
    /\ cache[FileName(page_title)] # Partial
    /\ LET timestamp == Get(cache[FileName(page_title)], "timestamp", EmptyTimestamp)
       IN  timestamp = EmptyTimestamp \/ now - timestamp <= cache_ttl

\* C27: the step fetch_page takes at its start: with use_cache true and an
\* unexpired record in the cache it ends the call with exactly that record,
\* without a Steel scrape or an attempt and without writing the cache; with
\* use_cache false it goes on to the network and does not end the call.
C27_CacheGate ==
    [][\A i \in FetchTasks :
          (Fetching /\ tasks[i].pc = "cache" /\ tasks'[i] # tasks[i]) =>
              /\ (call.use_cache /\ HasUnexpired(tasks[i].title)) =>
                    /\ tasks'[i].pc = "done"
                    /\ tasks'[i].result = cache[FileName(tasks[i].title)]
                    /\ tasks'[i].events = <<>>
                    /\ tasks'[i].steel = 0
                    /\ cache' = cache
              /\ ~call.use_cache => tasks'[i].pc \in {"steel", "attempt"}]_vars

\* fetch_page has returned the cached page without any attempt, the cache
\* as it was.
C27_Witness ==
    /\ FetchReturned
    /\ call.use_cache
    /\ call.page_title = "Python"
    /\ cache = PythonCached
    /\ ret = PythonCached[FileName("Python")]
    /\ tasks[1].events = <<>>
    /\ tasks[1].steel = 0

\* With use_cache false and the page in the cache, fetch_page has made an
\* attempt.
C27_BypassWitness ==
    /\ FetchReturned
    /\ ~call.use_cache
    /\ call.page_title = "Python"
    /\ FileName("Python") \in DOMAIN cache
    /\ tasks[1].events # <<>>

\* C28: for every num_points >= 0, compare_topics returns at most
\* num_points comparison points, similarities and differences together.
C28_TotalPoints ==
    (Returned("compare_topics") /\ call.num_points >= 0) =>
        Len(ret.similarities) + Len(ret.differences) <= call.num_points

\* C29: every record fetch_page writes to the cache has success = True (a
\* failed Steel scrape, a failed wptools attempt and an unsuccessful API
\* result are not cached), so a cache hit never returns a failure record.
\* A file is a record of the cache or one an async save has just emptied.
IsFailure(record) == record # Partial /\ ~Get(record, "success", FALSE)

\* The files a step has written.
Written(files, files_after) ==
    {n \in DOMAIN files_after : n \notin DOMAIN files \/ files_after[n] # files[n]}

\* The step ends the task at its cache lookup with a record.
CacheHitStep(task, task_after) ==
    task.pc = "cache" /\ task_after.pc = "done"
        /\ "raised" \notin DOMAIN task_after.result

C29_OnlySuccessCached ==
    [][call.op \in FetchOps =>
          /\ \A n \in Written(cache, cache') : ~IsFailure(cache'[n])
          /\ \A k \in FetchTasks :
                CacheHitStep(tasks[k], tasks'[k]) =>
                    Get(tasks'[k].result, "success", FALSE)]_vars

\* A Steel scrape failed, wptools then fetched the page, and the cache
\* holds the page.
C29_Witness ==
    /\ FetchReturned /\ call.module = "FetchModule"
    /\ tasks[1].steel = 1 /\ tasks[1].attempt = 2
    /\ FileName(call.page_title) \in DOMAIN cache
    /\ cache[FileName(call.page_title)].source = "wptools"
    /\ ret.success

\* An API result without success was retried, the next one was saved, and
\* a second task of the batch read the saved record from the cache.
C29_AsyncWitness ==
    /\ BatchReturned /\ Len(tasks) = 2
    /\ tasks[1].events = <<AttemptEvent(1), AttemptEvent(2)>>
    /\ tasks[2].attempt = 0 /\ tasks[2].result = tasks[1].result
    /\ ret[2].success

\* C30: a cache read that meets a file another fetch of the same title is
\* writing (emptied, the content not yet written) gives None, never a
\* partial record and never an exception, and the reading fetch_page goes
\* on to its own network fetch; a read of the written file gives the
\* complete record.
Interleaved(task) == task.read_errors > 0

\* The task has gone to the network itself.
OwnFetch(task) == task.attempt + task.steel >= 1

C30_InterleavedRead ==
    \A k \in FetchTasks :
        /\ tasks[k].result # Partial
        /\ Interleaved(tasks[k]) =>
              /\ tasks[k].pc # "cache"
              /\ "raised" \notin DOMAIN tasks[k].result
              /\ tasks[k].pc \in {"steel", "attempt"} /\ ~OwnFetch(tasks[k]) =>
                    (call.steel \/ tasks[k].attempt < call.max_retries)
              /\ tasks[k].pc = "done" => OwnFetch(tasks[k])
        /\ (tasks[k].pc = "done" /\ ~OwnFetch(tasks[k])
               /\ Get(tasks[k].result, "success", FALSE)) =>
              tasks[k].result = FetchedPage(tasks[k].title, tasks[k].result.source,
                                            tasks[k].result.timestamp)

\* Two tasks of a batch for one title: the second read the file while the
\* first was writing it, and fetched the page itself.
C30_Witness ==
    /\ BatchReturned /\ Len(tasks) = 2
    /\ tasks[1].title = tasks[2].title
    /\ Interleaved(tasks[2]) /\ ~Interleaved(tasks[1])
    /\ tasks[2].attempt = 1 /\ ret[2].success

\* The same on the two threads of the compare command, through Steel.
C30_ThreadWitness ==
    /\ Returned("cli_compare")
    /\ tasks[1].title = tasks[2].title
    /\ Interleaved(tasks[1]) /\ ~Interleaved(tasks[2])
    /\ tasks[1].steel = 1 /\ tasks[1].attempt = 0 /\ ret[1].success

\* The second task read the file after the first had written it.
C30_CompleteWitness ==
    /\ BatchReturned /\ Len(tasks) = 2
    /\ tasks[1].title = tasks[2].title
    /\ tasks[1].attempt = 1 /\ ~OwnFetch(tasks[2])
    /\ ret[2] = ret[1] /\ ret[2].success

====
